---- MODULE Spec2Model ----
(***************************************************************************)
(* A model of betacraft/deferclient:                                       *)
(*   - deferclient/client.go : DeferPanicClient (Postit, ShipTrace, prep,  *)
(*     Persist, PersistRepanic) and the RunningCommands registry;          *)
(*   - deferstats/http.go    : the HTTPHandler interceptor, ResponseTracer *)
(*     and the curlist latency registry.                                   *)
(*                                                                         *)
(* The specifications share the variables:                                 *)
(*   Spec        concurrent Postit calls and the capture tasks they start  *)
(*   SpecReport  one goroutine running Prep/PrepSync/Persist/PersistRepanic*)
(*               and the goroutine that ships the trace                    *)
(*   SpecHTTP    requests through HTTPHandler, on either kind of build     *)
(*   SpecHTTPNilError  the same on a build whose panic(nil) carries a      *)
(*               *runtime.PanicNilError                                    *)
(*   SpecReportFair  SpecReport with goroutines that go on running         *)
(*   SpecClient  a report and a Postit of another goroutine side by side   *)
(*   SpecRegistry  goroutines calling Add, List and Reset on curlist       *)
(*   SpecRegistryCallers  the same, with callers that store into what      *)
(*               List handed them                                          *)
(*   SpecTracer  any sequence of Write and WriteHeader on a ResponseTracer *)
(*   SpecPropagation  BeforeRequest on any X-Dpparentspanid header         *)
(*   SpecClean   cleanTrace on any short trace body                        *)
(* A specification leaves the variables of the others at their initial     *)
(* values.                                                                 *)
(***************************************************************************)
EXTENDS Integers, Sequences, FiniteSets, TLC

(***************************************************************************)
(* Bounds of the model.                                                    *)
(***************************************************************************)
\* commands in one collector reply
MaxCmds == 2
\* distinct command ids the collector hands out
NumIds == 2
\* requests in flight through HTTPHandler
NumRequests == 1
\* calls a wrapped handler makes on its response writer
MaxHandlerOps == 2
\* goroutines calling Add, List and Reset on the registry
NumWorkers == 2
\* calls made on the registry in one behaviour
MaxRegOps == 4
\* Write and WriteHeader calls made on one ResponseTracer
MaxTracerCalls == 4
\* characters of a trace body handed to cleanTrace
MaxBodyLen == 3

\* the goroutines that call Postit: two, so that calls overlap in every way
\* or follow one another
Posters == {1, 2}
Ids == 1..NumIds
\* in SpecReport the goroutine prep starts runs ShipTrace, and so Postit, as
\* this one
Shipper == 1
\* the one that calls Postit on its own, as the uploads of statistics do
Uploader == 2
Requests == 1..NumRequests

(***************************************************************************)
(* Values.                                                                 *)
(***************************************************************************)
\* values a Go program panics with, or passes to Prep as err
Nil == [kind |-> "nil"]
PanicNilError == [kind |-> "PanicNilError"]
RuntimeError == [kind |-> "runtime.Error", s |-> "nil pointer dereference"]
PanicValues ==
    {Nil, [kind |-> "string", s |-> "boom"], [kind |-> "int", n |-> 42]}

\* the panic a goroutine is in: none, or one carrying a value
NoPanic == [active |-> FALSE, v |-> Nil]
Panicking(v) == [active |-> TRUE, v |-> v]

\* the command types Postit switches on; anything else takes the default arm
CommandTypeTrace == "trace"
CommandTypeCPUProfile == "cpuprofile"
CommandTypeMemProfile == "memprofile"
KnownTypes == {CommandTypeTrace, CommandTypeCPUProfile, CommandTypeMemProfile}
CommandTypes == KnownTypes \cup {"other"}

Commands == [Id : Ids, Type : CommandTypes]
NoCommand == [Id |-> 0, Type |-> "none"]

\* what came back from HttpClient.Do and how its body reads and decodes:
\* readable = ioutil.ReadAll succeeds, decodes = json.Unmarshal succeeds,
\* n = number of entries of Commands the decoder produced (on a failed
\* decode: the entries it had filled in before the error)
Replies ==
    {[readable |-> FALSE, decodes |-> FALSE, n |-> 0]}
        \cup [readable : {TRUE}, decodes : BOOLEAN, n : 0..MaxCmds]
NoReply == [readable |-> FALSE, decodes |-> FALSE, n |-> -1]

\* span ids callers hand to Prep and PrepSync
SpanArgs == {-1, 0, 5}
NoArgs == [msg |-> "", spanId |-> 0]

\* LatencyThreshold, milliseconds
LatencyThreshold == 500
NsPerMs == 1000000
StatusOK == 200
StatusInternalServerError == 500
\* status codes a wrapped handler sets, bodies it writes
HandlerCodes == {200, 404}
HandlerBody == "ok"
\* status codes a handler may hand to WriteHeader, 0 among them
TracerCodes == {0, 200, 404}
\* tracer.newId(): rand.Int63 of a generator seeded with the clock
NewIds == {0, 1}
\* time.Now() - startTime at appendHTTP, nanoseconds
ElapsedNs == {500000000, 500999999, 501000000}
FreshWriter == [wroteHeader |-> FALSE, status |-> 0, body |-> <<>>]
FreshTracer == [status |-> 0, size |-> 0, SpanId |-> 0]

\* decimal numerals: the digits of a natural number, most significant first,
\* with no leading zero (int64 and uint64 do not fit the checker's integers)
DigitChars == <<"0", "1", "2", "3", "4", "5", "6", "7", "8", "9">>
NumZero == <<"0">>
\* 1<<64 - 1
MaxUint64 == <<"1", "8", "4", "4", "6", "7", "4", "4", "0", "7", "3", "7", "0", "9", "5", "5", "1", "6", "1", "5">>
\* maxUint64/10 + 1
CutoffUint64 == <<"1", "8", "4", "4", "6", "7", "4", "4", "0", "7", "3", "7", "0", "9", "5", "5", "1", "6", "2">>
\* 1 << 63
CutoffInt64 == <<"9", "2", "2", "3", "3", "7", "2", "0", "3", "6", "8", "5", "4", "7", "7", "5", "8", "0", "8">>
\* 1<<63 - 1
MaxInt64 == <<"9", "2", "2", "3", "3", "7", "2", "0", "3", "6", "8", "5", "4", "7", "7", "5", "8", "0", "7">>
\* an int64: sign and magnitude
Int64(neg, mag) == [neg |-> neg /\ mag # NumZero, mag |-> mag]
IntZero == Int64(FALSE, NumZero)
\* values of the X-Dpparentspanid header, character by character
HeaderValues ==
    { <<"4", "2">>,
      <<"-", "4", "2">>,
      <<"+", "7">>,
      <<"0">>,
      <<"-", "0">>,
      <<"0", "0", "7">>,
      <<>>,
      <<"a", "b", "c">>,
      <<"4", "x">>,
      <<"-">>,
      <<"+">>,
      <<" ", "4", "2">>,
      <<"4", " ", "2">>,
      <<"1", "_", "0", "0", "0">>,
      <<"9", "2", "2", "3", "3", "7", "2", "0", "3", "6", "8", "5", "4", "7", "7", "5", "8", "0", "7">>,
      <<"9", "2", "2", "3", "3", "7", "2", "0", "3", "6", "8", "5", "4", "7", "7", "5", "8", "0", "8">>,
      <<"-", "9", "2", "2", "3", "3", "7", "2", "0", "3", "6", "8", "5", "4", "7", "7", "5", "8", "0", "8">>,
      <<"-", "9", "2", "2", "3", "3", "7", "2", "0", "3", "6", "8", "5", "4", "7", "7", "5", "8", "0", "9">>,
      <<"1", "8", "4", "4", "6", "7", "4", "4", "0", "7", "3", "7", "0", "9", "5", "5", "1", "6", "1", "5">>,
      <<"1", "8", "4", "4", "6", "7", "4", "4", "0", "7", "3", "7", "0", "9", "5", "5", "1", "6", "1", "6">>,
      <<"9", "9", "9", "9", "9", "9", "9", "9", "9", "9", "9", "9", "9", "9", "9", "9", "9", "9", "9", "9">>,
      <<"0", "0", "0", "9", "2", "2", "3", "3", "7", "2", "0", "3", "6", "8", "5", "4", "7", "7", "5", "8", "0", "7">> }
\* r.Header as the server hands it in: canonical keys, each with one value
\* or more; the propagation header is absent, or its first value is any text
ParentHeader == "X-Dpparentspanid"
OtherHeader == "Accept"
OtherValues == <<<<"*", "/", "*">>>>
NoHeaders == (ParentHeader :> <<>>) @@ (OtherHeader :> <<>>)
RequestHeaders ==
    LET parents == {<<>>} \cup {<<v>> : v \in HeaderValues}
                          \cup {<<v, <<"1">>>> : v \in HeaderValues}
    IN  {(ParentHeader :> ph) @@ (OtherHeader :> oh) :
            ph \in parents, oh \in {<<>>, OtherValues}}

\* characters of a trace body, one string each; Nul stands for the byte 0
Newline == "\n"
Tab == "\t"
Nul == "\\x00"
Backslash == "\\"
BodyChars == {"a", " ", "\r", Newline, Tab, Nul, Backslash}
\* unicode.IsSpace, as far as BodyChars goes
WhiteSpace == {" ", "\r", Newline, Tab}
\* "a\nb\tc\x00d"
ExampleBody == <<"a", Newline, "b", Tab, "c", Nul, "d">>
\* a back trace as backTrace() hands it to ShipTrace
BackTraceText == <<"a", Newline, Tab, "a", Newline>>
\* the trace bodies cleanTrace is tried on
Bodies ==
    UNION {[1..n -> BodyChars] : n \in 0..MaxBodyLen} \cup {ExampleBody}

\* goroutines that use the registry (curlist) at the same time
Workers == 1..NumWorkers
\* a DeferHTTP: Headers holds the address of a map, as a Go map value does
NoItem == [Path |-> "", SpanId |-> 0, Headers |-> 0]
\* contents of a header snapshot as BeforeRequest builds it, and the value a
\* caller of List may store into one
HeaderMaps == {[Accept |-> "text/html"]}
CallerValue == "changed"
\* r.URL.Path of the request a worker records
PathOf(w) == "/w" \o ToString(w)

VARIABLES
    \* ---- the build ----
    panicnil,         \* GODEBUG panicnil=1 or a toolchain before go1.21:
                      \* panic(nil) carries nil
    \* ---- deferclient: DeferPanicClient and Postit ----
    NoPost,           \* c.NoPost
    RunningCommands,  \* c.RunningCommands : id -> bool (absent reads false)
    pc,               \* where each Postit call is
    analyseResponse,  \* Postit's analyseResponse argument
    reply,            \* the collector's reply to the call (NoReply: none)
    seenRunning,      \* ids marked running when the reply was decoded
    todo,             \* entries of response.Commands the range loop has left
    command,          \* the loop variable
    running,          \* the local `running`
    panicking,        \* panic in progress in the Postit goroutine
    result,           \* how the call ended
    spawned,          \* per call and id: capture tasks the call started with `go`
    unmarked,         \* per id: started capture tasks that have not marked it yet
    \* ---- deferclient: Prep, PrepSync, Persist, PersistRepanic ----
    rEntry,           \* the method the reporting goroutine called
    rpc,              \* where that call is
    rIn,              \* the panic in progress when Persist/PersistRepanic ran
    rPanic,           \* the panic in progress in the reporting goroutine
    rErr,             \* err: the argument of Prep, or what recover() gave
    rSpan,            \* spanId
    shipPc,           \* the goroutine prep starts
    shipArgs,         \* the arguments of its ShipTrace
    \* ---- deferstats: HTTPHandler ----
    hpc,              \* where each request is
    tracer,           \* the request's ResponseTracer
    writer,           \* the response writer the server handed in (tracer.w)
    ops,              \* calls the wrapped handler has made on the tracer
    hThrown,          \* the panic the wrapped handler raised, if it did
    hPanic,           \* the panic in progress in the request's goroutine
    hErr,             \* err in the deferred func
    elapsed,          \* endTime.Sub(startTime) at appendHTTP
    afterRequests,    \* per request: the AfterRequest calls made
    prepped,          \* per request: the BaseClient.Prep calls made
    panicResponses,   \* per request: the WritePanicResponse calls made
    curlist,          \* curlist.list
    \* ---- deferstats: deferHTTPList, used by several goroutines ----
    regLock,          \* d.lock: the writer holding it (0: none), the readers
    regPc,            \* where each worker's Add, List or Reset is
    regItem,          \* Add's item
    regLocal,         \* the d.list an Add has read for its append
    regOut,           \* the slice List returned to the worker last
    heap,             \* the header maps allocated so far, by address
    regHist,          \* items by lock acquisition since the last Reset
    regHistDeep,      \* the same with each header map's content at Add
    regSnap,          \* per worker: regHist when its List took the lock
    regRet,           \* per worker: content of its result when List returned
    regTouched,       \* per worker: it has changed its own result
    regAdds,          \* Add calls that have taken the lock
    regOps,           \* calls on the registry so far
    regReset,         \* a Reset has taken the lock
    \* ---- deferstats: a ResponseTracer driven by any handler ----
    trc,              \* the ResponseTracer
    trcW,             \* the writer it wraps (l.w)
    trcStrict,        \* l.w panics on a status code outside 100..999
    trcCalls,         \* the Write and WriteHeader calls that returned
    trcPrev,          \* Status() before the last of them
    \* ---- deferstats: BeforeRequest reading the request's headers ----
    inHeader,         \* r.Header: per key its values, <<>> when absent
    bqPc,             \* "new", then "done" when BeforeRequest has returned
    bqParent,         \* tracer.ParentSpanId
    bqHeaders,        \* headers, the snapshot BeforeRequest returns
    \* ---- deferclient: cleanTrace ----
    ctIn,             \* body, as passed in
    ctPc,             \* "new", then "done" when cleanTrace has returned
    ctOut,            \* what it returned
    \* ---- deferclient: what ShipTrace hands to Postit ----
    posted,           \* the bodies (b) and urls, in the order of the calls
    \* ---- deferclient: prep's `done` channel ----
    doneSent          \* values sent on it

clientVars == <<NoPost, RunningCommands, pc, analyseResponse, reply, seenRunning,
                todo, command, running, panicking, result, spawned, unmarked>>
reportVars == <<rEntry, rpc, rIn, rPanic, rErr, rSpan, shipPc, shipArgs>>
httpVars == <<hpc, tracer, writer, ops, hThrown, hPanic, hErr, elapsed,
              afterRequests, prepped, panicResponses, curlist>>

regVars == <<regLock, regPc, regItem, regLocal, regOut, heap, regHist,
             regHistDeep, regSnap, regRet, regTouched, regAdds, regOps, regReset>>
tracerVars == <<trc, trcW, trcStrict, trcCalls, trcPrev>>
parseVars == <<inHeader, bqPc, bqParent, bqHeaders>>
cleanVars == <<ctIn, ctPc, ctOut>>
pureVars == <<tracerVars, parseVars, cleanVars>>
wireVars == <<posted, doneSent>>
libVars == <<regVars, pureVars, wireVars>>

vars == <<panicnil, libVars, clientVars, reportVars, httpVars>>

(***************************************************************************)
(* The Go runtime: panic and recover.                                      *)
(***************************************************************************)
\* panic(v): since go1.21 a nil argument becomes a *runtime.PanicNilError,
\* unless the build runs with panicnil=1
GoPanic(v) ==
    IF v = Nil /\ ~panicnil THEN Panicking(PanicNilError) ELSE Panicking(v)

\* the value recover() hands to a deferred function: the panic's value, nil
\* when there is no panic
RecoverValue(ps) == IF ps.active THEN ps.v ELSE Nil

\* a recover() that does not stop the panic (not called by the deferred
\* function itself)
RecoveredNot(ps) == ps

\* the goroutine's panic after recover() ran in a deferred function
Recovered(ps) == NoPanic

(***************************************************************************)
(* deferclient/client.go                                                   *)
(***************************************************************************)

\* NewDeferPanicClient: RunningCommands: make(map[int]bool)
InitClient ==
    /\ RunningCommands = [i \in Ids |-> FALSE]
    /\ pc = [p \in Posters |-> "idle"]
    /\ analyseResponse = [p \in Posters |-> FALSE]
    /\ reply = [p \in Posters |-> NoReply]
    /\ seenRunning = [p \in Posters |-> {}]
    /\ todo = [p \in Posters |-> 0]
    /\ command = [p \in Posters |-> NoCommand]
    /\ running = [p \in Posters |-> FALSE]
    /\ panicking = [p \in Posters |-> NoPanic]
    /\ result = [p \in Posters |-> "none"]
    /\ spawned = [p \in Posters |-> [i \in Ids |-> 0]]
    /\ unmarked = [i \in Ids |-> 0]

\* no report call has been made
InitReport ==
    /\ rEntry = "none"
    /\ rpc = "idle"
    /\ rIn = NoPanic
    /\ rPanic = NoPanic
    /\ rErr = Nil
    /\ rSpan = 0
    /\ shipPc = "none"
    /\ shipArgs = NoArgs

\* curlist = &deferHTTPList{}; no request has arrived
InitHTTP ==
    /\ hpc = [r \in Requests |-> "new"]
    /\ tracer = [r \in Requests |-> FreshTracer]
    /\ writer = [r \in Requests |-> FreshWriter]
    /\ ops = [r \in Requests |-> 0]
    /\ hThrown = [r \in Requests |-> NoPanic]
    /\ hPanic = [r \in Requests |-> NoPanic]
    /\ hErr = [r \in Requests |-> Nil]
    /\ elapsed = [r \in Requests |-> 0]
    /\ afterRequests = [r \in Requests |-> <<>>]
    /\ prepped = [r \in Requests |-> <<>>]
    /\ panicResponses = [r \in Requests |-> <<>>]
    /\ curlist = <<>>

\* deferHTTPList{}: the lock is free, the list empty; no worker has called
InitRegistry ==
    /\ regLock = [writer |-> 0, readers |-> {}]
    /\ regPc = [w \in Workers |-> "idle"]
    /\ regItem = [w \in Workers |-> NoItem]
    /\ regLocal = [w \in Workers |-> <<>>]
    /\ regOut = [w \in Workers |-> <<>>]
    /\ heap = <<>>
    /\ regHist = <<>>
    /\ regHistDeep = <<>>
    /\ regSnap = [w \in Workers |-> <<>>]
    /\ regRet = [w \in Workers |-> <<>>]
    /\ regTouched = [w \in Workers |-> FALSE]
    /\ regAdds = 0
    /\ regOps = 0
    /\ regReset = FALSE

\* &ResponseTracer{w: w}: no call has been made on it
InitTracer ==
    /\ trc = FreshTracer
    /\ trcW = FreshWriter
    /\ trcCalls = <<>>
    /\ trcPrev = 0

\* BeforeRequest has not run: the tracer is not built
InitParse ==
    /\ bqPc = "new"
    /\ bqParent = IntZero
    /\ bqHeaders = <<>>

\* cleanTrace has not been called
InitClean ==
    /\ ctPc = "new"
    /\ ctOut = <<>>

\* the parts of the library that a specification leaves at rest
InitLib ==
    /\ posted = <<>>
    /\ doneSent = 0
    /\ InitRegistry
    /\ InitTracer
    /\ trcStrict = FALSE
    /\ InitClean
    /\ ctIn = <<>>
    /\ InitParse
    /\ inHeader = NoHeaders

\* a Postit that carries on after a failed json.Unmarshal
DecodeFailedIgnored(r) == FALSE

\* `if err != nil { log.Println(err); return }` after json.Unmarshal
DecodeFailed(r) == ~r.decodes

\* a Postit that dispatches without looking at `running`
ShouldDispatchAlways(isRunning) == TRUE

\* `if !running` : the command is dispatched only when not marked running
ShouldDispatch(isRunning) == ~isRunning

\* the switch on command.Type: the three known types start a task
StartsTask(type) == type \in KnownTypes

\* a Postit without its `if c.NoPost { return }`
PostitEnterAnyway(p, analyse, reqOk) ==
    /\ pc[p] = "idle"
    /\ analyseResponse' = [analyseResponse EXCEPT ![p] = analyse]
    /\ IF ~reqOk
         THEN /\ pc' = [pc EXCEPT ![p] = "deferred"]
              /\ panicking' = [panicking EXCEPT ![p] = GoPanic(RuntimeError)]
              /\ UNCHANGED result
         ELSE /\ pc' = [pc EXCEPT ![p] = "do"]
              /\ UNCHANGED <<panicking, result>>
    /\ UNCHANGED <<NoPost, RunningCommands, reply, seenRunning, todo, command,
                   running, spawned, unmarked>>

\* Postit, from its entry to the blocking HttpClient.Do.  reqOk = FALSE is a
\* call whose request cannot be built (http.NewRequest fails and its error
\* is dropped, or c.Agent is nil): req.Header.Set dereferences nil.
PostitEnter(p, analyse, reqOk) ==
    /\ pc[p] = "idle"
    /\ analyseResponse' = [analyseResponse EXCEPT ![p] = analyse]
    /\ IF NoPost
         THEN /\ pc' = [pc EXCEPT ![p] = "deferred"]
              /\ result' = [result EXCEPT ![p] = "nopost"]
              /\ UNCHANGED panicking
         ELSE IF ~reqOk
         THEN /\ pc' = [pc EXCEPT ![p] = "deferred"]
              /\ panicking' = [panicking EXCEPT ![p] = GoPanic(RuntimeError)]
              /\ UNCHANGED result
         ELSE /\ pc' = [pc EXCEPT ![p] = "do"]
              /\ UNCHANGED <<panicking, result>>
    /\ UNCHANGED <<NoPost, RunningCommands, reply, seenRunning, todo, command,
                   running, spawned, unmarked>>

\* a goroutine calls Postit(b, url, analyseResponse)
PostitCall(p) ==
    /\ \E analyse \in BOOLEAN, reqOk \in BOOLEAN : PostitEnter(p, analyse, reqOk)
    /\ UNCHANGED <<panicnil, libVars, reportVars, httpVars>>

\* HttpClient.Do fails: logged, return.
PostitDoError(p) ==
    /\ pc[p] = "do"
    /\ pc' = [pc EXCEPT ![p] = "deferred"]
    /\ result' = [result EXCEPT ![p] = "neterr"]
    /\ UNCHANGED <<NoPost, RunningCommands, analyseResponse, reply, seenRunning,
                   todo, command, running, panicking, spawned, unmarked>>
    /\ UNCHANGED <<panicnil, libVars, reportVars, httpVars>>

\* HttpClient.Do answers; the status code is only logged.  With
\* analyseResponse the body is read and decoded.
PostitDoResponse(p) ==
    /\ pc[p] = "do"
    /\ \E r \in Replies :
        /\ reply' = [reply EXCEPT ![p] = r]
        /\ IF ~analyseResponse[p]
             THEN /\ pc' = [pc EXCEPT ![p] = "deferred"]
                  /\ result' = [result EXCEPT ![p] = "sent"]
                  /\ UNCHANGED <<todo, seenRunning>>
             ELSE IF ~r.readable
             THEN /\ pc' = [pc EXCEPT ![p] = "deferred"]
                  /\ result' = [result EXCEPT ![p] = "readerr"]
                  /\ UNCHANGED <<todo, seenRunning>>
             ELSE IF DecodeFailed(r)
             THEN /\ pc' = [pc EXCEPT ![p] = "deferred"]
                  /\ result' = [result EXCEPT ![p] = "decodeerr"]
                  /\ UNCHANGED <<todo, seenRunning>>
             ELSE /\ pc' = [pc EXCEPT ![p] = "loop"]
                  /\ todo' = [todo EXCEPT ![p] = r.n]
                  /\ seenRunning' = [seenRunning EXCEPT ![p] =
                                       {i \in Ids : RunningCommands[i]}]
                  /\ UNCHANGED result
    /\ UNCHANGED <<NoPost, RunningCommands, analyseResponse, command, running,
                   panicking, spawned, unmarked>>
    /\ UNCHANGED <<panicnil, libVars, reportVars, httpVars>>

\* for _, command := range response.Commands {
\*     c.Lock(); running := c.RunningCommands[command.Id]; c.Unlock()
\* The next entry of the reply is drawn when the loop reaches it; the
\* critical section is the one read.
LoopCheck(p) ==
    /\ pc[p] = "loop"
    /\ todo[p] > 0
    /\ \E cmd \in Commands :
        /\ command' = [command EXCEPT ![p] = cmd]
        /\ running' = [running EXCEPT ![p] = RunningCommands[cmd.Id]]
    /\ pc' = [pc EXCEPT ![p] = "dispatch"]
    /\ UNCHANGED <<NoPost, RunningCommands, analyseResponse, reply, seenRunning,
                   todo, panicking, result, spawned, unmarked>>
    /\ UNCHANGED <<panicnil, libVars, reportVars, httpVars>>

\*     if !running { switch command.Type { case ...: go c.MakeXxx(command.Id, ...)
\*                                          default: log.Printf(...) } }
LoopDispatch(p) ==
    /\ pc[p] = "dispatch"
    /\ IF ShouldDispatch(running[p]) /\ StartsTask(command[p].Type)
         THEN /\ spawned' = [spawned EXCEPT ![p][command[p].Id] = @ + 1]
              /\ unmarked' = [unmarked EXCEPT ![command[p].Id] = @ + 1]
         ELSE UNCHANGED <<spawned, unmarked>>
    /\ todo' = [todo EXCEPT ![p] = @ - 1]
    /\ command' = [command EXCEPT ![p] = NoCommand]
    /\ running' = [running EXCEPT ![p] = FALSE]
    /\ pc' = [pc EXCEPT ![p] = "loop"]
    /\ UNCHANGED <<NoPost, RunningCommands, analyseResponse, reply, seenRunning,
                   panicking, result>>
    /\ UNCHANGED <<panicnil, libVars, reportVars, httpVars>>

\* the range loop is exhausted: Postit falls off its end
LoopEnd(p) ==
    /\ pc[p] = "loop"
    /\ todo[p] = 0
    /\ pc' = [pc EXCEPT ![p] = "deferred"]
    /\ result' = [result EXCEPT ![p] = "analysed"]
    /\ UNCHANGED <<NoPost, RunningCommands, analyseResponse, reply, seenRunning,
                   todo, command, running, panicking, spawned, unmarked>>
    /\ UNCHANGED <<panicnil, libVars, reportVars, httpVars>>

\* the deferred func of Postit: recover() stops any panic, which is logged
PostitDeferred(p) ==
    /\ pc[p] = "deferred"
    /\ panicking' = [panicking EXCEPT ![p] = Recovered(@)]
    /\ result' = [result EXCEPT ![p] =
                    IF RecoverValue(panicking[p]) # Nil THEN "recovered" ELSE @]
    /\ pc' = [pc EXCEPT ![p] = "returned"]
    /\ UNCHANGED <<NoPost, RunningCommands, analyseResponse, reply, seenRunning,
                   todo, command, running, spawned, unmarked>>
    /\ UNCHANGED <<panicnil, libVars, reportVars, httpVars>>

\* A capture task (MakeTrace, MakeCPUProfile, MakeMemProfile) started by
\* Postit marks its command id running under the client's lock and never
\* unmarks it.
MakeMark(id) ==
    /\ unmarked[id] > 0
    /\ unmarked' = [unmarked EXCEPT ![id] = @ - 1]
    /\ RunningCommands' = [RunningCommands EXCEPT ![id] = TRUE]
    /\ UNCHANGED <<NoPost, pc, analyseResponse, reply, seenRunning, todo, command,
                   running, panicking, result, spawned>>
    /\ UNCHANGED <<panicnil, libVars, reportVars, httpVars>>

\* NoPost is a field the application may set before it uses the client
Init ==
    /\ panicnil = FALSE
    /\ NoPost \in BOOLEAN
    /\ InitClient
    /\ InitReport
    /\ InitHTTP
    /\ InitLib

Next ==
    \/ \E p \in Posters : PostitCall(p)
    \/ \E p \in Posters : PostitDoError(p)
    \/ \E p \in Posters : PostitDoResponse(p)
    \/ \E p \in Posters : LoopCheck(p)
    \/ \E p \in Posters : LoopDispatch(p)
    \/ \E p \in Posters : LoopEnd(p)
    \/ \E p \in Posters : PostitDeferred(p)
    \/ \E id \in Ids : MakeMark(id)

Spec == Init /\ [][Next]_vars

(***************************************************************************)
(* deferclient/client.go: cleanTrace                                       *)
(***************************************************************************)
\* strings.Replace(s, old, new, -1) for a one-character old
RECURSIVE Replace(_, _, _)
Replace(s, old, new) ==
    IF s = <<>> THEN <<>>
    ELSE (IF Head(s) = old THEN new ELSE <<Head(s)>>) \o Replace(Tail(s), old, new)

\* strings.TrimSpace: white space is cut from the start, then from the end
RECURSIVE TrimLeft(_)
TrimLeft(s) ==
    IF s # <<>> /\ Head(s) \in WhiteSpace THEN TrimLeft(Tail(s)) ELSE s
RECURSIVE TrimRight(_)
TrimRight(s) ==
    IF s # <<>> /\ s[Len(s)] \in WhiteSpace
      THEN TrimRight(SubSeq(s, 1, Len(s) - 1)) ELSE s
TrimSpace(s) == TrimRight(TrimLeft(s))

\* a cleanTrace that trims before it replaces
CleanTraceTrimFirst(body) ==
    Replace(Replace(Replace(TrimSpace(body), Newline, <<Backslash, "n">>),
                    Tab, <<Backslash, "t">>),
            Nul, <<" ">>)

\* cleanTrace: the three replacements in the code's order, then the trim
CleanTrace(body) ==
    TrimSpace(Replace(Replace(Replace(body, Newline, <<Backslash, "n">>),
                              Tab, <<Backslash, "t">>),
                      Nul, <<" ">>))

\* cleanTrace(body) is called and returns
CleanTraceCall ==
    /\ ctPc = "new"
    /\ ctOut' = CleanTrace(ctIn)
    /\ ctPc' = "done"
    /\ UNCHANGED ctIn
    /\ UNCHANGED <<panicnil, wireVars, regVars, tracerVars, parseVars, clientVars,
                   reportVars, httpVars>>

InitCleaning ==
    /\ panicnil = FALSE
    /\ NoPost = FALSE
    /\ InitClient
    /\ InitReport
    /\ InitHTTP
    /\ posted = <<>>
    /\ doneSent = 0
    /\ InitRegistry
    /\ InitTracer
    /\ trcStrict = FALSE
    /\ InitParse
    /\ inHeader = NoHeaders
    /\ InitClean
    /\ ctIn \in Bodies

NextClean == CleanTraceCall

SpecClean == InitCleaning /\ [][NextClean]_vars

(***************************************************************************)
(* deferclient/client.go: Prep, PrepSync, Persist, PersistRepanic          *)
(***************************************************************************)

\* fmt.Sprintf("%q", err) with every double quote removed
ErrorMsg(v) ==
    CASE v.kind = "string" -> v.s
      [] v.kind = "int" -> IF v.n = 42 THEN "'*'" ELSE "'?'"
      [] v.kind = "nil" -> "%!q(<nil>)"
      [] v.kind = "PanicNilError" -> "panic called with nil argument"
      [] OTHER -> v.s

\* a ShipTrace that asks Postit to analyse the reply
ShipTraceAnalysesReply == TRUE

\* the analyseResponse ShipTrace hands to Postit: c.Postit(b, errorsUrl, false)
ShipTraceAnalyses == FALSE

\* a PrepSync that hands prep syncShipTrace = false
SyncShipTraceNever(entry) == FALSE

\* syncShipTrace as prep receives it: Prep passes false, PrepSync true, and
\* PersistRepanic goes through PrepSync, Persist through Prep
SyncShipTrace(entry) == entry \in {"PrepSync", "PersistRepanic"}

\* a goroutine calls Prep(err, spanId) or PrepSync(err, spanId)
PrepCall ==
    /\ rpc = "idle"
    /\ \E entry \in {"Prep", "PrepSync"}, v \in PanicValues, span \in SpanArgs :
        /\ rEntry' = entry
        /\ rErr' = v
        /\ rSpan' = span
    /\ rpc' = "prep"
    /\ UNCHANGED <<rIn, rPanic, shipPc, shipArgs>>
    /\ UNCHANGED <<panicnil, libVars, clientVars, httpVars>>

\* `defer c.Persist()` or `defer c.PersistRepanic()` runs as its function
\* ends, normally or in a panic
PersistCall ==
    /\ rpc = "idle"
    /\ \E entry \in {"Persist", "PersistRepanic"},
          ps \in {NoPanic} \cup {GoPanic(v) : v \in PanicValues} :
        /\ rEntry' = entry
        /\ rIn' = ps
        /\ rPanic' = ps
    /\ rpc' = "recover"
    /\ UNCHANGED <<rErr, rSpan, shipPc, shipArgs>>
    /\ UNCHANGED <<panicnil, libVars, clientVars, httpVars>>

\* if err := recover(); err != nil { c.Prep(err, 0) / c.PrepSync(err, 0) ... }
PersistRecover ==
    /\ rpc = "recover"
    /\ rErr' = RecoverValue(rPanic)
    /\ rPanic' = Recovered(rPanic)
    /\ rSpan' = 0
    /\ rpc' = IF RecoverValue(rPanic) # Nil THEN "prep" ELSE "returned"
    /\ UNCHANGED <<rEntry, rIn, shipPc, shipArgs>>
    /\ UNCHANGED <<panicnil, libVars, clientVars, httpVars>>

\* prep: format the message, take the back trace, start the goroutine that
\* ships it; with syncShipTrace wait on `done`
PrepSpawn ==
    /\ rpc = "prep"
    /\ shipArgs' = [msg |-> ErrorMsg(rErr), spanId |-> rSpan]
    /\ shipPc' = "spawned"
    /\ rpc' = IF SyncShipTrace(rEntry) THEN "wait" ELSE "afterprep"
    /\ UNCHANGED <<rEntry, rIn, rPanic, rErr, rSpan>>
    /\ UNCHANGED <<panicnil, libVars, clientVars, httpVars>>

\* dj := &DeferJSON{Msg: errorstr, BackTrace: body};
\* if spanId > 0 { dj.SpanId = spanId }
DeferJSONOf(errorstr, body, spanId) ==
    [Msg |-> errorstr, BackTrace |-> body,
     SpanId |-> IF spanId > 0 THEN spanId ELSE 0]

\* json.Marshal(dj): the fields under their json names; SpanId is omitempty,
\* left out when it is 0
Marshal(dj) ==
    IF dj.SpanId = 0
      THEN [ErrorName |-> dj.Msg, Body |-> dj.BackTrace]
      ELSE [ErrorName |-> dj.Msg, Body |-> dj.BackTrace, SpanId |-> dj.SpanId]

\* the started goroutine enters ShipTrace: nothing is sent under NoPost,
\* otherwise the body is built from the cleaned back trace and
\* Postit(b, errorsUrl, false) is called
ShipTraceBegin ==
    /\ shipPc = "spawned"
    /\ IF NoPost
         THEN /\ shipPc' = "shipped"
              /\ UNCHANGED <<clientVars, posted>>
         ELSE /\ shipPc' = "postit"
              /\ posted' = Append(posted,
                    [b |-> Marshal(DeferJSONOf(shipArgs.msg,
                                               CleanTrace(BackTraceText),
                                               shipArgs.spanId)),
                     url |-> "errorsUrl"])
              /\ \E reqOk \in BOOLEAN :
                    PostitEnter(Shipper, ShipTraceAnalyses, reqOk)
    /\ UNCHANGED <<rEntry, rpc, rIn, rPanic, rErr, rSpan, shipArgs>>
    /\ UNCHANGED <<panicnil, regVars, pureVars, doneSent, httpVars>>

\* Postit has returned to ShipTrace, which returns; a panic Postit did not
\* stop would not come back here
ShipTraceEnd ==
    /\ shipPc = "postit"
    /\ pc[Shipper] = "returned"
    /\ ~panicking[Shipper].active
    /\ shipPc' = "shipped"
    /\ UNCHANGED <<rEntry, rpc, rIn, rPanic, rErr, rSpan, shipArgs>>
    /\ UNCHANGED <<panicnil, libVars, clientVars, httpVars>>

\* `done <- true` meets `<-done`: the channel is unbuffered
DoneSignal ==
    /\ shipPc = "shipped"
    /\ rpc = "wait"
    /\ shipPc' = "exited"
    /\ rpc' = "afterprep"
    /\ doneSent' = doneSent + 1
    /\ UNCHANGED <<rEntry, rIn, rPanic, rErr, rSpan, shipArgs>>
    /\ UNCHANGED <<panicnil, regVars, pureVars, posted, clientVars, httpVars>>

\* `go c.ShipTrace(...)`: the goroutine ends when ShipTrace returns
ShipExit ==
    /\ shipPc = "shipped"
    /\ ~SyncShipTrace(rEntry)
    /\ shipPc' = "exited"
    /\ UNCHANGED <<rEntry, rpc, rIn, rPanic, rErr, rSpan, shipArgs>>
    /\ UNCHANGED <<panicnil, libVars, clientVars, httpVars>>

\* prep has returned: PersistRepanic goes on to panic(err), the others return
ReportReturn ==
    /\ rpc = "afterprep"
    /\ rPanic' = IF rEntry = "PersistRepanic" THEN GoPanic(rErr) ELSE rPanic
    /\ rpc' = "returned"
    /\ UNCHANGED <<rEntry, rIn, rErr, rSpan, shipPc, shipArgs>>
    /\ UNCHANGED <<panicnil, libVars, clientVars, httpVars>>

InitReporting ==
    /\ panicnil \in BOOLEAN
    /\ NoPost \in BOOLEAN
    /\ InitClient
    /\ InitReport
    /\ InitHTTP
    /\ InitLib

NextReport ==
    \/ PrepCall
    \/ PersistCall
    \/ PersistRecover
    \/ PrepSpawn
    \/ ShipTraceBegin
    \/ PostitDoError(Shipper)
    \/ PostitDoResponse(Shipper)
    \/ PostitDeferred(Shipper)
    \/ ShipTraceEnd
    \/ DoneSignal
    \/ ShipExit
    \/ ReportReturn

SpecReport == InitReporting /\ [][NextReport]_vars

\* the same calls with goroutines that go on running: a step that a goroutine
\* can take by itself is taken in the end; the network owes nothing, so
\* HttpClient.Do may never come back
SpecReportFair ==
    /\ SpecReport
    /\ WF_vars(PersistRecover)
    /\ WF_vars(PrepSpawn)
    /\ WF_vars(ShipTraceBegin)
    /\ WF_vars(PostitDeferred(Shipper))
    /\ WF_vars(ShipTraceEnd)
    /\ WF_vars(DoneSignal)
    /\ WF_vars(ShipExit)
    /\ WF_vars(ReportReturn)

\* a report under way while another goroutine posts on its own and has the
\* reply analysed
DirectPostit ==
    PostitCall(Uploader)

NextClient ==
    \/ PrepCall
    \/ PersistCall
    \/ PersistRecover
    \/ PrepSpawn
    \/ ShipTraceBegin
    \/ ShipTraceEnd
    \/ DoneSignal
    \/ ShipExit
    \/ ReportReturn
    \/ DirectPostit
    \/ \E p \in Posters : PostitDoError(p)
    \/ \E p \in Posters : PostitDoResponse(p)
    \/ \E p \in Posters : LoopCheck(p)
    \/ \E p \in Posters : LoopDispatch(p)
    \/ \E p \in Posters : LoopEnd(p)
    \/ \E p \in Posters : PostitDeferred(p)
    \/ \E id \in Ids : MakeMark(id)

\* NoPost is set or not before the client is used
InitClientUse ==
    /\ panicnil = FALSE
    /\ NoPost \in BOOLEAN
    /\ InitClient
    /\ InitReport
    /\ InitHTTP
    /\ InitLib

SpecClient == InitClientUse /\ [][NextClient]_vars

(***************************************************************************)
(* deferstats/http.go                                                      *)
(***************************************************************************)

\* fmt.Sprintf("%v", err)
FmtV(v) ==
    CASE v.kind = "string" -> v.s
      [] v.kind = "int" -> ToString(v.n)
      [] v.kind = "nil" -> "<nil>"
      [] v.kind = "PanicNilError" -> "panic called with nil argument"
      [] OTHER -> v.s

\* len(b) of the body handlers write
ByteLen(b) == CASE b = "ok" -> 2

\* http.ResponseWriter.WriteHeader on the server's writer: the first status
\* is sent, a later call changes nothing
WriterWriteHeader(w, code) ==
    IF w.wroteHeader THEN w
    ELSE [w EXCEPT !.wroteHeader = TRUE, !.status = code]

\* http.ResponseWriter.Write on the server's writer: sends 200 first when no
\* status has been sent
WriterWrite(w, b) ==
    [WriterWriteHeader(w, StatusOK) EXCEPT !.body = Append(@, b)]

\* ResponseTracer.Write
TracerWrite(t, b) ==
    [t EXCEPT !.status = IF @ = 0 THEN StatusOK ELSE @,
              !.size = @ + ByteLen(b)]

\* a WriteHeader that keeps the first status recorded, as the server's writer
\* does
TracerWriteHeaderFirst(t, code) == IF t.status = 0 THEN [t EXCEPT !.status = code] ELSE t

\* ResponseTracer.WriteHeader
TracerWriteHeader(t, code) == [t EXCEPT !.status = code]

\* an appendHTTP that also records a request that took exactly the threshold
ShouldRecordFromThreshold(t, isProblem) == (t >= LatencyThreshold) \/ isProblem

\* `if (t > LatencyThreshold) || isProblem`
ShouldRecord(t, isProblem) == (t > LatencyThreshold) \/ isProblem

\* int(endTime.Sub(startTime).Nanoseconds() / 1000000)
Millis(ns) == ns \div NsPerMs

\* appendHTTP: the list after the call (rpms.Inc counts the status code in
\* another package)
AppendHTTP(list, ns, path, status_code, span_id, isProblem) ==
    IF ShouldRecord(Millis(ns), isProblem)
      THEN Append(list, [Path |-> path, StatusCode |-> status_code,
                         Time |-> Millis(ns), SpanId |-> span_id,
                         IsProblem |-> isProblem])
      ELSE list

\* BeforeRequest: the start time is taken, the tracer wraps w and gets its
\* span id; the handler is about to run
BeforeRequest(r) ==
    /\ hpc[r] = "new"
    /\ \E id \in NewIds : tracer' = [tracer EXCEPT ![r] = [FreshTracer EXCEPT !.SpanId = id]]
    /\ hpc' = [hpc EXCEPT ![r] = "serving"]
    /\ UNCHANGED <<writer, ops, hThrown, hPanic, hErr, elapsed, afterRequests,
                   prepped, panicResponses, curlist>>
    /\ UNCHANGED <<panicnil, libVars, clientVars, reportVars>>

\* the wrapped handler calls Write on the tracer it was given
HandlerWrite(r) ==
    /\ hpc[r] = "serving"
    /\ ops[r] < MaxHandlerOps
    /\ tracer' = [tracer EXCEPT ![r] = TracerWrite(@, HandlerBody)]
    /\ writer' = [writer EXCEPT ![r] = WriterWrite(@, HandlerBody)]
    /\ ops' = [ops EXCEPT ![r] = @ + 1]
    /\ UNCHANGED <<hpc, hThrown, hPanic, hErr, elapsed, afterRequests, prepped,
                   panicResponses, curlist>>
    /\ UNCHANGED <<panicnil, libVars, clientVars, reportVars>>

\* the wrapped handler calls WriteHeader on the tracer
HandlerWriteHeader(r) ==
    /\ hpc[r] = "serving"
    /\ ops[r] < MaxHandlerOps
    /\ \E code \in HandlerCodes :
        /\ writer' = [writer EXCEPT ![r] = WriterWriteHeader(@, code)]
        /\ tracer' = [tracer EXCEPT ![r] = TracerWriteHeader(@, code)]
    /\ ops' = [ops EXCEPT ![r] = @ + 1]
    /\ UNCHANGED <<hpc, hThrown, hPanic, hErr, elapsed, afterRequests, prepped,
                   panicResponses, curlist>>
    /\ UNCHANGED <<panicnil, libVars, clientVars, reportVars>>

\* f.ServeHTTP(tracer, r) returns
HandlerReturn(r) ==
    /\ hpc[r] = "serving"
    /\ hpc' = [hpc EXCEPT ![r] = "served"]
    /\ UNCHANGED <<tracer, writer, ops, hThrown, hPanic, hErr, elapsed,
                   afterRequests, prepped, panicResponses, curlist>>
    /\ UNCHANGED <<panicnil, libVars, clientVars, reportVars>>

\* f.ServeHTTP(tracer, r) panics: the deferred func runs next
HandlerPanic(r) ==
    /\ hpc[r] = "serving"
    /\ \E v \in PanicValues :
        /\ hThrown' = [hThrown EXCEPT ![r] = GoPanic(v)]
        /\ hPanic' = [hPanic EXCEPT ![r] = GoPanic(v)]
    /\ hpc' = [hpc EXCEPT ![r] = "deferred"]
    /\ UNCHANGED <<tracer, writer, ops, hErr, elapsed, afterRequests, prepped,
                   panicResponses, curlist>>
    /\ UNCHANGED <<panicnil, libVars, clientVars, reportVars>>

\* c.AfterRequest(startTime, tracer, r, headers, tracer.Status(), false)
AfterRequestNormal(r) ==
    /\ hpc[r] = "served"
    /\ \E ns \in ElapsedNs :
        /\ elapsed' = [elapsed EXCEPT ![r] = ns]
        /\ curlist' = AppendHTTP(curlist, ns, r, tracer[r].status,
                                 tracer[r].SpanId, FALSE)
    /\ afterRequests' = [afterRequests EXCEPT ![r] =
                           Append(@, [status_code |-> tracer[r].status,
                                      isproblem |-> FALSE])]
    /\ hpc' = [hpc EXCEPT ![r] = "deferred"]
    /\ UNCHANGED <<tracer, writer, ops, hThrown, hPanic, hErr, prepped,
                   panicResponses>>
    /\ UNCHANGED <<panicnil, libVars, clientVars, reportVars>>

\* the deferred func: `if err := recover(); err != nil {`
DeferredRecover(r) ==
    /\ hpc[r] = "deferred"
    /\ hErr' = [hErr EXCEPT ![r] = RecoverValue(hPanic[r])]
    /\ hPanic' = [hPanic EXCEPT ![r] = Recovered(@)]
    /\ hpc' = [hpc EXCEPT ![r] =
                 IF RecoverValue(hPanic[r]) # Nil THEN "recovered" ELSE "returned"]
    /\ UNCHANGED <<tracer, writer, ops, hThrown, elapsed, afterRequests, prepped,
                   panicResponses, curlist>>
    /\ UNCHANGED <<panicnil, libVars, clientVars, reportVars>>

\* c.BaseClient.Prep(err, tracer.SpanId): the report is handed to a goroutine
RecoverPrep(r) ==
    /\ hpc[r] = "recovered"
    /\ prepped' = [prepped EXCEPT ![r] =
                     Append(@, [msg |-> ErrorMsg(hErr[r]), spanId |-> tracer[r].SpanId])]
    /\ hpc' = [hpc EXCEPT ![r] = "reported"]
    /\ UNCHANGED <<tracer, writer, ops, hThrown, hPanic, hErr, elapsed,
                   afterRequests, panicResponses, curlist>>
    /\ UNCHANGED <<panicnil, libVars, clientVars, reportVars>>

\* c.AfterRequest(startTime, tracer, r, headers, 500, true)
AfterRequestPanic(r) ==
    /\ hpc[r] = "reported"
    /\ \E ns \in ElapsedNs :
        /\ elapsed' = [elapsed EXCEPT ![r] = ns]
        /\ curlist' = AppendHTTP(curlist, ns, r, StatusInternalServerError,
                                 tracer[r].SpanId, TRUE)
    /\ afterRequests' = [afterRequests EXCEPT ![r] =
                           Append(@, [status_code |-> StatusInternalServerError,
                                      isproblem |-> TRUE])]
    /\ hpc' = [hpc EXCEPT ![r] = "recorded"]
    /\ UNCHANGED <<tracer, writer, ops, hThrown, hPanic, hErr, prepped,
                   panicResponses>>
    /\ UNCHANGED <<panicnil, libVars, clientVars, reportVars>>

\* WritePanicResponse(w, r, fmt.Sprintf("%v", err)) with its default:
\* w.WriteHeader(500); w.Write([]byte(errMsg)), on w and not on the tracer
PanicResponse(r) ==
    /\ hpc[r] = "recorded"
    /\ writer' = [writer EXCEPT ![r] =
                    WriterWrite(WriterWriteHeader(@, StatusInternalServerError),
                                FmtV(hErr[r]))]
    /\ panicResponses' = [panicResponses EXCEPT ![r] =
                            Append(@, [w |-> "w", errMsg |-> FmtV(hErr[r])])]
    /\ hpc' = [hpc EXCEPT ![r] = "returned"]
    /\ UNCHANGED <<tracer, ops, hThrown, hPanic, hErr, elapsed, afterRequests,
                   prepped, curlist>>
    /\ UNCHANGED <<panicnil, libVars, clientVars, reportVars>>

InitServing ==
    /\ panicnil \in BOOLEAN
    /\ NoPost = FALSE
    /\ InitClient
    /\ InitReport
    /\ InitHTTP
    /\ InitLib

NextHTTP ==
    \/ \E r \in Requests : BeforeRequest(r)
    \/ \E r \in Requests : HandlerWrite(r)
    \/ \E r \in Requests : HandlerWriteHeader(r)
    \/ \E r \in Requests : HandlerReturn(r)
    \/ \E r \in Requests : HandlerPanic(r)
    \/ \E r \in Requests : AfterRequestNormal(r)
    \/ \E r \in Requests : DeferredRecover(r)
    \/ \E r \in Requests : RecoverPrep(r)
    \/ \E r \in Requests : AfterRequestPanic(r)
    \/ \E r \in Requests : PanicResponse(r)

SpecHTTP == InitServing /\ [][NextHTTP]_vars

\* the same requests under a build where panic(nil) raises a PanicNilError
InitServingNilError ==
    /\ panicnil = FALSE
    /\ NoPost = FALSE
    /\ InitClient
    /\ InitReport
    /\ InitHTTP
    /\ InitLib

SpecHTTPNilError == InitServingNilError /\ [][NextHTTP]_vars

(***************************************************************************)
(* deferstats/http.go: deferHTTPList (curlist) used by several goroutines. *)
(***************************************************************************)
httpRest == <<hpc, tracer, writer, ops, hThrown, hPanic, hErr, elapsed,
              afterRequests, prepped, panicResponses>>

\* a Lock that does not wait for the lock to be free
MayLockAlways(l) == TRUE

\* sync.RWMutex.Lock goes through when no writer and no reader holds the lock
MayLock(l) == l.writer = 0 /\ l.readers = {}

\* sync.RWMutex.RLock goes through when no writer holds the lock
MayRLock(l) == l.writer = 0

\* a List that leaves out the oldest of several entries
CopyOfNewer(list) == IF Len(list) <= 1 THEN list ELSE Tail(list)

\* list := make([]DeferHTTP, len(d.list)); for i, v := range d.list { list[i] = v }
\* a new slice; each entry is copied by value, so its Headers field holds the
\* address of the same map
CopyOf(list) == [i \in 1..Len(list) |-> list[i]]

\* what an entry shows to a reader who follows its Headers
DeepEntry(h, e) == [Path |-> e.Path, SpanId |-> e.SpanId, Headers |-> h[e.Headers]]
Deep(h, list) == [i \in 1..Len(list) |-> DeepEntry(h, list[i])]

\* Add(item): d.lock.Lock().  The item is the caller's: its Headers is a map
\* the caller built.
AddLock(w) ==
    /\ regPc[w] = "idle"
    /\ regOps < MaxRegOps
    /\ MayLock(regLock)
    /\ \E hm \in HeaderMaps :
        LET item == [Path |-> PathOf(w), SpanId |-> regAdds + 1, Headers |-> Len(heap) + 1]
        IN  /\ heap' = Append(heap, hm)
            /\ regItem' = [regItem EXCEPT ![w] = item]
            /\ regHist' = Append(regHist, item)
            /\ regHistDeep' = Append(regHistDeep, DeepEntry(heap', item))
    /\ regLock' = [regLock EXCEPT !.writer = w]
    /\ regPc' = [regPc EXCEPT ![w] = "addRead"]
    /\ regAdds' = regAdds + 1
    /\ regOps' = regOps + 1
    /\ UNCHANGED <<regLocal, regOut, regSnap, regRet, regTouched, regReset>>
    /\ UNCHANGED <<panicnil, wireVars, pureVars, clientVars, reportVars, httpVars>>

\* d.list = append(d.list, item): the list is read ...
AddRead(w) ==
    /\ regPc[w] = "addRead"
    /\ regLocal' = [regLocal EXCEPT ![w] = curlist]
    /\ regPc' = [regPc EXCEPT ![w] = "addWrite"]
    /\ UNCHANGED <<regLock, regItem, regOut, heap, regHist, regHistDeep, regSnap,
                   regRet, regTouched, regAdds, regOps, regReset>>
    /\ UNCHANGED <<panicnil, wireVars, pureVars, clientVars, reportVars, httpVars>>

\* ... and the longer list is stored; d.lock.Unlock()
AddWrite(w) ==
    /\ regPc[w] = "addWrite"
    /\ curlist' = Append(regLocal[w], regItem[w])
    /\ regLock' = [regLock EXCEPT !.writer = IF @ = w THEN 0 ELSE @]
    /\ regPc' = [regPc EXCEPT ![w] = "idle"]
    /\ UNCHANGED <<regItem, regLocal, regOut, heap, regHist, regHistDeep, regSnap,
                   regRet, regTouched, regAdds, regOps, regReset>>
    /\ UNCHANGED <<panicnil, wireVars, pureVars, clientVars, reportVars, httpRest>>

\* List(): d.lock.RLock()
ListRLock(w) ==
    /\ regPc[w] = "idle"
    /\ regOps < MaxRegOps
    /\ MayRLock(regLock)
    /\ regLock' = [regLock EXCEPT !.readers = @ \cup {w}]
    /\ regSnap' = [regSnap EXCEPT ![w] = regHist]
    /\ regPc' = [regPc EXCEPT ![w] = "listCopy"]
    /\ regOps' = regOps + 1
    /\ UNCHANGED <<regItem, regLocal, regOut, heap, regHist, regHistDeep, regRet,
                   regTouched, regAdds, regReset>>
    /\ UNCHANGED <<panicnil, wireVars, pureVars, clientVars, reportVars, httpVars>>

\* the copy is made; d.lock.RUnlock(); return list
ListCopy(w) ==
    /\ regPc[w] = "listCopy"
    /\ regOut' = [regOut EXCEPT ![w] = CopyOf(curlist)]
    /\ regRet' = [regRet EXCEPT ![w] = Deep(heap, CopyOf(curlist))]
    /\ regTouched' = [regTouched EXCEPT ![w] = FALSE]
    /\ regLock' = [regLock EXCEPT !.readers = @ \ {w}]
    /\ regPc' = [regPc EXCEPT ![w] = "listed"]
    /\ UNCHANGED <<regItem, regLocal, heap, regHist, regHistDeep, regSnap,
                   regAdds, regOps, regReset>>
    /\ UNCHANGED <<panicnil, wireVars, pureVars, clientVars, reportVars, httpVars>>

\* Reset(): d.lock.Lock()
ResetLock(w) ==
    /\ regPc[w] = "idle"
    /\ regOps < MaxRegOps
    /\ MayLock(regLock)
    /\ regLock' = [regLock EXCEPT !.writer = w]
    /\ regHist' = <<>>
    /\ regHistDeep' = <<>>
    /\ regReset' = TRUE
    /\ regPc' = [regPc EXCEPT ![w] = "resetWrite"]
    /\ regOps' = regOps + 1
    /\ UNCHANGED <<regItem, regLocal, regOut, heap, regSnap, regRet, regTouched,
                   regAdds>>
    /\ UNCHANGED <<panicnil, wireVars, pureVars, clientVars, reportVars, httpVars>>

\* d.list = []DeferHTTP{}; d.lock.Unlock()
ResetWrite(w) ==
    /\ regPc[w] = "resetWrite"
    /\ curlist' = <<>>
    /\ regLock' = [regLock EXCEPT !.writer = IF @ = w THEN 0 ELSE @]
    /\ regPc' = [regPc EXCEPT ![w] = "idle"]
    /\ UNCHANGED <<regItem, regLocal, regOut, heap, regHist, regHistDeep, regSnap,
                   regRet, regTouched, regAdds, regOps, regReset>>
    /\ UNCHANGED <<panicnil, wireVars, pureVars, clientVars, reportVars, httpRest>>

\* the caller of List stores into an entry of the slice it was handed:
\* list[i].Path = ...
CallerSetField(w) ==
    /\ regPc[w] = "listed"
    /\ \E i \in 1..Len(regOut[w]) :
        /\ regOut[w][i].Path # CallerValue
        /\ regOut' = [regOut EXCEPT ![w][i].Path = CallerValue]
    /\ regTouched' = [regTouched EXCEPT ![w] = TRUE]
    /\ UNCHANGED <<regLock, regPc, regItem, regLocal, heap, regHist, regHistDeep,
                   regSnap, regRet, regAdds, regOps, regReset>>
    /\ UNCHANGED <<panicnil, wireVars, pureVars, clientVars, reportVars, httpVars>>

\* the caller of List stores into the header map of an entry it was handed:
\* list[i].Headers["Accept"] = ...
CallerSetHeader(w) ==
    /\ regPc[w] = "listed"
    /\ \E i \in 1..Len(regOut[w]) :
        LET a == regOut[w][i].Headers
        IN  /\ heap[a].Accept # CallerValue
            /\ heap' = [heap EXCEPT ![a].Accept = CallerValue]
    /\ regTouched' = [regTouched EXCEPT ![w] = TRUE]
    /\ UNCHANGED <<regLock, regPc, regItem, regLocal, regOut, regHist, regHistDeep,
                   regSnap, regRet, regAdds, regOps, regReset>>
    /\ UNCHANGED <<panicnil, wireVars, pureVars, clientVars, reportVars, httpVars>>

\* the caller is done with the slice and goes on to other calls
CallerDone(w) ==
    /\ regPc[w] = "listed"
    /\ regPc' = [regPc EXCEPT ![w] = "idle"]
    /\ UNCHANGED <<regLock, regItem, regLocal, regOut, heap, regHist, regHistDeep,
                   regSnap, regRet, regTouched, regAdds, regOps, regReset>>
    /\ UNCHANGED <<panicnil, wireVars, pureVars, clientVars, reportVars, httpVars>>

InitRegistryUse ==
    /\ panicnil = FALSE
    /\ NoPost = FALSE
    /\ InitClient
    /\ InitReport
    /\ InitHTTP
    /\ InitLib

\* Add, List and Reset in any interleaving
NextRegistry ==
    \/ \E w \in Workers : AddLock(w)
    \/ \E w \in Workers : AddRead(w)
    \/ \E w \in Workers : AddWrite(w)
    \/ \E w \in Workers : ListRLock(w)
    \/ \E w \in Workers : ListCopy(w)
    \/ \E w \in Workers : ResetLock(w)
    \/ \E w \in Workers : ResetWrite(w)
    \/ \E w \in Workers : CallerDone(w)

SpecRegistry == InitRegistryUse /\ [][NextRegistry]_vars

\* the same with callers that store into what List handed them
NextRegistryCallers ==
    \/ NextRegistry
    \/ \E w \in Workers : CallerSetField(w)
    \/ \E w \in Workers : CallerSetHeader(w)

SpecRegistryCallers == InitRegistryUse /\ [][NextRegistryCallers]_vars

(***************************************************************************)
(* deferstats/http.go: a ResponseTracer under any sequence of calls.       *)
(***************************************************************************)
\* net/http's writers since go1.11 panic in WriteHeader on a code outside
\* 100..999; older ones, and writers of other packages, take any int
InvalidCode(code) == code < 100 \/ code > 999

\* the handler calls Write(b) on the tracer
TracerCallWrite ==
    /\ Len(trcCalls) < MaxTracerCalls
    /\ trc' = TracerWrite(trc, HandlerBody)
    /\ trcW' = WriterWrite(trcW, HandlerBody)
    /\ trcCalls' = Append(trcCalls, [op |-> "Write", code |-> 0])
    /\ trcPrev' = trc.status
    /\ UNCHANGED trcStrict
    /\ UNCHANGED <<panicnil, wireVars, regVars, parseVars, cleanVars, clientVars, reportVars, httpVars>>

\* the handler calls WriteHeader(code) on the tracer: l.w.WriteHeader(s),
\* then l.status = s
TracerCallWriteHeader ==
    /\ Len(trcCalls) < MaxTracerCalls
    /\ \E code \in TracerCodes :
        /\ ~(trcStrict /\ InvalidCode(code))
        /\ trcW' = WriterWriteHeader(trcW, code)
        /\ trc' = TracerWriteHeader(trc, code)
        /\ trcCalls' = Append(trcCalls, [op |-> "WriteHeader", code |-> code])
    /\ trcPrev' = trc.status
    /\ UNCHANGED trcStrict
    /\ UNCHANGED <<panicnil, wireVars, regVars, parseVars, cleanVars, clientVars, reportVars, httpVars>>

\* l.w.WriteHeader(s) panics on an invalid code: l.status = s is not reached
\* and the call does not return
TracerCallRejected ==
    /\ Len(trcCalls) < MaxTracerCalls
    /\ trcStrict
    /\ \E code \in TracerCodes :
        /\ InvalidCode(code)
        /\ trcCalls' = Append(trcCalls, [op |-> "panic", code |-> code])
    /\ trcPrev' = trc.status
    /\ UNCHANGED <<trc, trcW, trcStrict>>
    /\ UNCHANGED <<panicnil, wireVars, regVars, parseVars, cleanVars, clientVars, reportVars, httpVars>>

InitTracing ==
    /\ panicnil = FALSE
    /\ NoPost = FALSE
    /\ InitClient
    /\ InitReport
    /\ InitHTTP
    /\ posted = <<>>
    /\ doneSent = 0
    /\ InitRegistry
    /\ InitTracer
    /\ trcStrict \in BOOLEAN
    /\ InitClean
    /\ ctIn = <<>>
    /\ InitParse
    /\ inHeader = NoHeaders

NextTracer ==
    \/ TracerCallWrite
    \/ TracerCallWriteHeader
    \/ TracerCallRejected

SpecTracer == InitTracing /\ [][NextTracer]_vars

(***************************************************************************)
(* deferstats/http.go: BeforeRequest and the request's headers.            *)
(***************************************************************************)
IsDigit(c) == \E i \in 1..10 : DigitChars[i] = c
DigitVal(c) == (CHOOSE i \in 1..10 : DigitChars[i] = c) - 1

\* a < b for numerals
NumLess(a, b) ==
    \/ Len(a) < Len(b)
    \/ /\ Len(a) = Len(b)
       /\ \E i \in 1..Len(a) :
            /\ \A j \in 1..(i - 1) : a[j] = b[j]
            /\ DigitVal(a[i]) < DigitVal(b[i])

\* n*10 + d for a numeral n and a digit d
MulAdd(n, d) == IF n = NumZero THEN <<d>> ELSE Append(n, d)

\* strconv.ParseUint(s, 10, 64) from its loop on: a byte that is no digit is
\* a syntax error with value 0; a value past 1<<64 - 1 is a range error with
\* value 1<<64 - 1
RECURSIVE ParseUintLoop(_, _)
ParseUintLoop(s, n) ==
    IF s = <<>> THEN [n |-> n, err |-> "nil"]
    ELSE IF ~IsDigit(Head(s)) THEN [n |-> NumZero, err |-> "syntax"]
    ELSE IF ~NumLess(n, CutoffUint64) THEN [n |-> MaxUint64, err |-> "range"]
    ELSE LET n1 == MulAdd(n, Head(s))
         IN  IF NumLess(MaxUint64, n1) THEN [n |-> MaxUint64, err |-> "range"]
             ELSE ParseUintLoop(Tail(s), n1)

ParseUint(s) ==
    IF s = <<>> THEN [n |-> NumZero, err |-> "syntax"]
    ELSE ParseUintLoop(s, NumZero)

\* strconv.ParseInt(s, 10, 64): the value and the error.  A syntax error
\* comes with 0, a range error with the nearest int64.
ParseInt(s) ==
    IF s = <<>> THEN [v |-> IntZero, err |-> "syntax"]
    ELSE LET neg == Head(s) = "-"
             s1 == IF Head(s) \in {"+", "-"} THEN Tail(s) ELSE s
             u == ParseUint(s1)
         IN  IF u.err = "syntax" THEN [v |-> IntZero, err |-> "syntax"]
             ELSE IF ~neg /\ ~NumLess(u.n, CutoffInt64)
               THEN [v |-> Int64(FALSE, MaxInt64), err |-> "range"]
             ELSE IF neg /\ NumLess(CutoffInt64, u.n)
               THEN [v |-> Int64(TRUE, CutoffInt64), err |-> "range"]
             ELSE [v |-> Int64(neg, u.n), err |-> "nil"]

\* tracer.ParentSpanId, _ = strconv.ParseInt(v[0], 10, 64): the error is
\* dropped, the value kept
ParentSpanIdOf(v) == ParseInt(v[1]).v

\* strings.Join(v, ",")
RECURSIVE Join(_)
Join(v) ==
    IF Len(v) = 1 THEN v[1] ELSE v[1] \o <<",">> \o Join(Tail(v))

\* BeforeRequest's loop over r.Header: every key present goes into the
\* snapshot with its values joined, and the propagation header's first
\* value is parsed
BeforeRequestHeaders ==
    /\ bqPc = "new"
    /\ bqHeaders' = [k \in {h \in DOMAIN inHeader : inHeader[h] # <<>>} |->
                       Join(inHeader[k])]
    /\ bqParent' = IF inHeader[ParentHeader] # <<>>
                     THEN ParentSpanIdOf(inHeader[ParentHeader])
                     ELSE IntZero
    /\ bqPc' = "done"
    /\ UNCHANGED inHeader
    /\ UNCHANGED <<panicnil, wireVars, regVars, tracerVars, cleanVars, clientVars, reportVars, httpVars>>

InitPropagation ==
    /\ panicnil = FALSE
    /\ NoPost = FALSE
    /\ InitClient
    /\ InitReport
    /\ InitHTTP
    /\ posted = <<>>
    /\ doneSent = 0
    /\ InitRegistry
    /\ InitTracer
    /\ trcStrict = FALSE
    /\ InitClean
    /\ ctIn = <<>>
    /\ InitParse
    /\ inHeader \in RequestHeaders

NextPropagation == BeforeRequestHeaders

SpecPropagation == InitPropagation /\ [][NextPropagation]_vars

(***************************************************************************)
(* Properties of Postit and the command registry (under Spec).             *)
(***************************************************************************)
RECURSIVE SumSpawned(_, _)
SumSpawned(S, id) ==
    IF S = {} THEN 0
    ELSE LET p == CHOOSE q \in S : TRUE
         IN  spawned[p][id] + SumSpawned(S \ {p}, id)

\* capture tasks started for the id, over all Postit calls
TotalSpawned(id) == SumSpawned(Posters, id)

\* C1: over all replies Postit analyses, concurrently or in turn, the
\* capture task of a command id is started at most once.
C1_DispatchedAtMostOnce == \A id \in Ids : TotalSpawned(id) <= 1

\* C2: an id that is marked running when Postit decodes a reply gets no
\* capture task from any of its occurrences in that reply, whatever its
\* type, and the loop still runs through every entry of the reply.
C2_RunningIdNotDispatched ==
    \A p \in Posters :
        /\ \A id \in seenRunning[p] : spawned[p][id] = 0
        /\ (result[p] = "analysed" => todo[p] = 0)

\* a reply whose last entry names an id that was running when the reply was
\* decoded, met after an earlier entry of the same reply started a task
C2_Witness ==
    \E p \in Posters : \E other \in Ids :
        /\ pc[p] = "dispatch"
        /\ command[p].Id \in seenRunning[p]
        /\ StartsTask(command[p].Type)
        /\ running[p]
        /\ other # command[p].Id
        /\ spawned[p][other] = 1

\* C10: a reply that does not decode starts no capture task and Postit
\* returns normally; after a network failure no reply is analysed; no
\* panic leaves Postit.
C10_BadReplyDispatchesNothing ==
    \A p \in Posters :
        /\ (analyseResponse[p] /\ reply[p] # NoReply /\ ~reply[p].decodes)
              => /\ \A id \in Ids : spawned[p][id] = 0
                 /\ pc[p] \in {"deferred", "returned"}
                 /\ panicking[p] = NoPanic
        /\ (result[p] = "neterr")
              => /\ reply[p] = NoReply
                 /\ \A id \in Ids : spawned[p][id] = 0
                 /\ panicking[p] = NoPanic
        /\ (pc[p] = "returned") => panicking[p] = NoPanic

\* a call that asked for analysis has returned after a reply that was read
\* but did not decode, although the decoder had filled in commands
C10_Witness ==
    \E p \in Posters :
        /\ pc[p] = "returned"
        /\ analyseResponse[p]
        /\ reply[p].readable /\ ~reply[p].decodes /\ reply[p].n > 0
        /\ result[p] = "decodeerr"
        /\ \E id \in Ids : RunningCommands[id]


(***************************************************************************)
(* Properties of the report calls (under SpecReport).                      *)
(***************************************************************************)
\* the send attempt of the started goroutine is over: ShipTrace has returned
SendOver == shipPc \in {"shipped", "exited"} /\ pc[Shipper] \in {"idle", "returned"}

\* C8: PrepSync returns to its caller only after the send attempt made by
\* ShipTrace has completed, by success or by failure.
C8_PrepSyncReturnsAfterSend ==
    (rEntry = "PrepSync" /\ rpc \in {"afterprep", "returned"}) => SendOver

\* PrepSync has returned after a send the collector answered
C8_Witness ==
    /\ rEntry = "PrepSync"
    /\ rpc = "returned"
    /\ result[Shipper] = "sent"
    /\ shipPc = "exited"

\* C9: PersistRepanic, deferred while a panic is in progress, re-raises the
\* value of that panic once the synchronous report is over; Persist never
\* re-raises.
C9_RepanicAfterReport ==
    /\ (rEntry = "PersistRepanic" /\ rIn.active /\ rpc = "returned")
          => (rPanic = rIn /\ SendOver /\ shipPc = "exited")
    /\ (rEntry = "Persist" /\ rpc = "returned") => ~rPanic.active

(***************************************************************************)
(* Properties of HTTPHandler (under SpecHTTP).                             *)
(***************************************************************************)
\* the outcomes recorded for request r
Outcomes(r) == SelectSeq(curlist, LAMBDA d : d.Path = r)

\* C3: whatever a wrapped handler panics with, and wherever, the handler
\* HTTPHandler returns comes back normally: no panic passes it.
C3_PanicNeverPropagates ==
    \A r \in Requests : hpc[r] = "returned" => ~hPanic[r].active

\* a request whose handler panicked after writing has returned
C3_Witness ==
    \E r \in Requests :
        /\ hpc[r] = "returned"
        /\ hThrown[r].active
        /\ ops[r] > 0

\* C4: a request whose handler panics leaves exactly one outcome in the
\* registry, with status 500 and IsProblem, whatever the elapsed time and
\* whatever status the handler had written.
C4_PanicRecordedOnce ==
    \A r \in Requests :
        (hpc[r] = "returned" /\ hThrown[r].active)
            => /\ Len(Outcomes(r)) = 1
               /\ Outcomes(r)[1].StatusCode = StatusInternalServerError
               /\ Outcomes(r)[1].IsProblem

\* C5: a request whose handler returns is recorded, once, with IsProblem
\* false and the tracer's status, exactly when its whole milliseconds exceed
\* LatencyThreshold; at the threshold and below nothing is recorded.
C5_NormalRecordedOverThreshold ==
    \A r \in Requests :
        (hpc[r] = "returned" /\ ~hThrown[r].active)
            => IF Millis(elapsed[r]) > LatencyThreshold
                 THEN /\ Len(Outcomes(r)) = 1
                      /\ ~Outcomes(r)[1].IsProblem
                      /\ Outcomes(r)[1].StatusCode = tracer[r].status
                      /\ Outcomes(r)[1].Time = Millis(elapsed[r])
                 ELSE Len(Outcomes(r)) = 0

\* a handler returned after exactly LatencyThreshold whole milliseconds, and
\* a fraction
C5_Witness ==
    \E r \in Requests :
        /\ hpc[r] = "returned"
        /\ ~hThrown[r].active
        /\ Millis(elapsed[r]) = LatencyThreshold
        /\ elapsed[r] > LatencyThreshold * NsPerMs
        /\ tracer[r].status = StatusOK

\* C6: every request goes through AfterRequest exactly once, on the normal
\* path or on the panic path, after the handler is over and before the
\* interceptor returns.
C6_RecordedExactlyOnce ==
    \A r \in Requests :
        /\ hpc[r] = "returned" => Len(afterRequests[r]) = 1
        /\ hpc[r] \in {"new", "serving"} => Len(afterRequests[r]) = 0
        /\ Len(afterRequests[r]) <= 1
        /\ Len(afterRequests[r]) = 1
              => (afterRequests[r][1].isproblem <=> hThrown[r].active)

\* C7: a request whose handler panics gets the fallback response:
\* WritePanicResponse runs once, on the original writer, with the panic's
\* text, and the response has status 500 and that text as its body.
C7_PanicGetsFallbackResponse ==
    \A r \in Requests :
        (hpc[r] = "returned" /\ hThrown[r].active)
            => /\ Len(panicResponses[r]) = 1
               /\ panicResponses[r][1] = [w |-> "w", errMsg |-> FmtV(hThrown[r].v)]
               /\ writer[r].status = StatusInternalServerError
               /\ writer[r].body # <<>>
               /\ writer[r].body[Len(writer[r].body)] = FmtV(hThrown[r].v)

(***************************************************************************)
(* Properties of the registry (under SpecRegistry, SpecRegistryCallers).   *)
(***************************************************************************)
\* the entries of a list that carry the span id k
WithSpanId(list, k) == {i \in 1..Len(list) : list[i].SpanId = k}

\* the worker holds the slice its last List returned
Holds(w) == regPc[w] # "listCopy"

\* C11: with no Reset, once the Add calls made by the workers are over the
\* list holds exactly one entry per Add, none lost; and every List, also one
\* that ran while Adds were under way, returned only whole entries that were
\* added, as many as Adds had taken the lock before it.
C11_NoAddLost ==
    ~regReset =>
      /\ regLock.writer = 0 =>
           /\ Len(curlist) = regAdds
           /\ \A k \in 1..regAdds : Cardinality(WithSpanId(curlist, k)) = 1
      /\ \A w \in Workers : Holds(w) =>
           /\ Len(regOut[w]) = Len(regSnap[w])
           /\ \A i \in 1..Len(regOut[w]) :
                /\ \E j \in 1..Len(regHist) : regOut[w][i] = regHist[j]
                /\ Cardinality(WithSpanId(regOut[w], regOut[w][i].SpanId)) = 1

\* two Adds by different workers are over, and a List returned both entries
C11_Witness ==
    /\ ~regReset
    /\ regAdds = 2
    /\ regLock.writer = 0
    /\ \E w \in Workers :
        /\ regPc[w] = "listed"
        /\ Len(regOut[w]) = 2
        /\ regOut[w][1].Path # regOut[w][2].Path

\* C12: whatever the interleaving of Add, List and Reset, a List returns the
\* items added since the last Reset took the lock (since the start when there
\* was none), in the order in which their Adds took the lock; between Resets
\* the list only grows at its end, and a List that follows a Reset with no Add
\* in between returns an empty slice.
C12_ListSinceReset ==
    /\ \A w \in Workers : Holds(w) => regOut[w] = regSnap[w]
    /\ regLock.writer = 0 => curlist = regHist

\* an Add, a Reset, a second Add: a List returned the second item alone
C12_Witness ==
    /\ regReset
    /\ regAdds = 2
    /\ \E w \in Workers :
        /\ regPc[w] = "listed"
        /\ Len(regOut[w]) = 1
        /\ regOut[w][1].SpanId = 2

\* C13: what List returned is the caller's alone: nothing another caller
\* does to its own result, and no later Add or Reset, changes what a result
\* shows (header maps included), and nothing a caller does to its result
\* changes what the registry holds.
C13_DefensiveCopy ==
    /\ \A w \in Workers :
         Holds(w) /\ ~regTouched[w] => Deep(heap, regOut[w]) = regRet[w]
    /\ regLock.writer = 0 => Deep(heap, curlist) = regHistDeep

(***************************************************************************)
(* Properties of ResponseTracer (under SpecTracer).                        *)
(***************************************************************************)
\* the calls on the tracer that returned
Returned == SelectSeq(trcCalls, LAMBDA c : c.op # "panic")
LastCall == trcCalls[Len(trcCalls)]

\* what each call that returned has done to the status: a Write records 200
\* when none is set and leaves a set one, a WriteHeader records its code
CallEffect ==
    trcCalls # <<>> =>
      /\ LastCall.op = "WriteHeader" => trc.status = LastCall.code
      /\ LastCall.op = "Write" =>
           trc.status = IF trcPrev = 0 THEN StatusOK ELSE trcPrev
      /\ LastCall.op = "panic" => trc.status = trcPrev

\* C14: Status() is 0 exactly while no Write and no WriteHeader has been
\* called (so a status once set never goes back to 0); the first Write with
\* no status set records 200; each WriteHeader(code) records code, the last
\* one winning, also after a Write.
C14_StatusSetForGood ==
    /\ (trc.status = 0) <=> (Returned = <<>>)
    /\ CallEffect

\* C14 as the code has it: Status() is 0 exactly while no call has returned
\* or the last call to record a status was WriteHeader(0); a Write with
\* status 0 records 200; each WriteHeader(code) records code, the last one
\* winning, also after a Write.
C14_StatusFollowsCalls ==
    /\ (trc.status = 0) <=>
         \/ Returned = <<>>
         \/ Returned[Len(Returned)] = [op |-> "WriteHeader", code |-> 0]
    /\ CallEffect

\* a WriteHeader after a Write has replaced the 200 the Write recorded
C14_Witness ==
    /\ Len(trcCalls) >= 2
    /\ trcCalls[1].op = "Write"
    /\ LastCall = [op |-> "WriteHeader", code |-> 404]
    /\ trc.status = 404
    /\ trcW.status = StatusOK

(***************************************************************************)
(* Properties of header propagation (under SpecPropagation).               *)
(***************************************************************************)
\* the text without its sign, and without leading zeros
Unsigned(s) == IF s # <<>> /\ Head(s) \in {"+", "-"} THEN Tail(s) ELSE s
RECURSIVE Canon(_)
Canon(ds) == IF Len(ds) > 1 /\ Head(ds) = "0" THEN Canon(Tail(ds)) ELSE ds

\* the text is a base-10 integer that fits 64 bits
IsDecimalInt64(s) ==
    /\ Unsigned(s) # <<>>
    /\ \A i \in 1..Len(Unsigned(s)) : IsDigit(Unsigned(s)[i])
    /\ IF Head(s) = "-" THEN ~NumLess(CutoffInt64, Canon(Unsigned(s)))
                        ELSE NumLess(Canon(Unsigned(s)), CutoffInt64)

\* the integer such a text carries
Carried(s) == Int64(Head(s) = "-", Canon(Unsigned(s)))

\* C15: after BeforeRequest the parent span id is the base-10 integer the
\* X-Dpparentspanid header carries when its value parses as a 64-bit integer
\* (42 for "42"), and 0 when the header is absent or its value does not
\* parse, be it non-numeric or outside the 64-bit range; BeforeRequest
\* returns in every case.
C15_ParentSpanIdOrZero ==
    bqPc = "done" =>
      /\ inHeader[ParentHeader] = <<>> => bqParent = IntZero
      /\ inHeader[ParentHeader] # <<>> =>
           LET s == inHeader[ParentHeader][1]
           IN  /\ IsDecimalInt64(s) => bqParent = Carried(s)
               /\ ~IsDecimalInt64(s) => bqParent = IntZero
               /\ s = <<"4", "2">> => bqParent = Int64(FALSE, <<"4", "2">>)

(***************************************************************************)
(* Properties of cleanTrace (under SpecClean).                             *)
(***************************************************************************)
\* what each character of a body is to become
Escape(c) ==
    CASE c = Newline -> <<Backslash, "n">>
      [] c = Tab -> <<Backslash, "t">>
      [] c = Nul -> <<" ">>
      [] OTHER -> <<c>>
RECURSIVE Escaped(_)
Escaped(s) == IF s = <<>> THEN <<>> ELSE Escape(Head(s)) \o Escaped(Tail(s))

\* the text between the first and the last character that is not white space
Inner(s) ==
    LET black == {i \in 1..Len(s) : s[i] \notin WhiteSpace}
    IN  IF black = {} THEN <<>>
        ELSE SubSeq(s, CHOOSE i \in black : \A j \in black : i <= j,
                       CHOOSE i \in black : \A j \in black : i >= j)

\* C17: cleanTrace returns the body with every newline turned into
\* backslash n, every tab into backslash t and every NUL into a space, and
\* the white space around that then cut: the result holds no newline, tab or
\* NUL and neither starts nor ends with white space; a\nb\tc\x00d gives
\* a, backslash, n, b, backslash, t, c, space, d.
C17_CleanTraceEscapesAndTrims ==
    ctPc = "done" =>
      /\ ctOut = Inner(Escaped(ctIn))
      /\ \A i \in 1..Len(ctOut) : ctOut[i] \notin {Newline, Tab, Nul}
      /\ ctOut # <<>> => ctOut[1] \notin WhiteSpace /\ ctOut[Len(ctOut)] \notin WhiteSpace
      /\ ctIn = ExampleBody =>
           ctOut = <<"a", Backslash, "n", "b", Backslash, "t", "c", " ", "d">>

\* a body that starts with a NUL and ends with a newline has been cleaned:
\* the space the NUL became is cut, the escaped newline stays
C17_Witness ==
    /\ ctPc = "done"
    /\ ctIn = <<Nul, "a", Newline>>
    /\ ctOut = <<"a", Backslash, "n">>

(***************************************************************************)
(* Properties of the report body (under SpecReport).                       *)
(***************************************************************************)
\* C16: whatever span id Prep, PrepSync or ShipTrace is given, the body of
\* the report carries it when it is not zero and has no SpanId field when it
\* is zero.
C16_SpanIdCarriedUnlessZero ==
    \A i \in 1..Len(posted) :
        IF shipArgs.spanId # 0
          THEN /\ "SpanId" \in DOMAIN posted[i].b
               /\ posted[i].b.SpanId = shipArgs.spanId
          ELSE "SpanId" \notin DOMAIN posted[i].b

(***************************************************************************)
(* Properties of the client as a whole (under SpecClient).                 *)
(***************************************************************************)
\* the call of Postit by p has gone to the network
Sending(p) ==
    \/ pc[p] \in {"do", "loop", "dispatch"}
    \/ reply[p] # NoReply
    \/ result[p] \in {"neterr", "sent", "readerr", "decodeerr", "analysed"}

\* the report call has come back to its caller without a panic of its own
ReturnedNormally ==
    rpc = "returned" /\ (rPanic.active => rEntry = "PersistRepanic")

\* C18: while NoPost is true no call of Prep, PrepSync, ShipTrace or Postit
\* sends anything and none starts a capture task; the calls return all the
\* same.
C18_NoPostSendsNothing ==
    NoPost =>
      /\ posted = <<>>
      /\ \A p \in Posters : ~Sending(p)
      /\ \A id \in Ids : TotalSpawned(id) = 0 /\ ~RunningCommands[id]
      /\ \A p \in Posters :
           pc[p] = "returned" => result[p] = "nopost" /\ ~panicking[p].active
      /\ rpc = "returned" => ReturnedNormally

\* under NoPost a PrepSync and a direct Postit have both returned
C18_Witness ==
    /\ NoPost
    /\ rEntry = "PrepSync"
    /\ rpc = "returned"
    /\ shipPc = "exited"
    /\ pc[Uploader] = "returned"
    /\ result[Uploader] = "nopost"

\* C19: the reply is decoded and its commands dispatched only for a send
\* that asked for the analysis; a panic report never asks, so whatever the
\* collector answers to a report sent through Prep, PrepSync or ShipTrace,
\* no capture task is started for it and RunningCommands is not read.
C19_ReportReplyNotAnalysed ==
    /\ \A p \in Posters :
         ~analyseResponse[p] =>
           /\ pc[p] \notin {"loop", "dispatch"}
           /\ result[p] \notin {"readerr", "decodeerr", "analysed"}
           /\ \A id \in Ids : spawned[p][id] = 0
    /\ shipPc # "none" => ~analyseResponse[Shipper]

\* a report was answered with commands that decode, and came back as sent
\* with nothing started, while the reply to a direct Postit was dispatched
C19_Witness ==
    /\ shipPc = "exited"
    /\ result[Shipper] = "sent"
    /\ reply[Shipper].readable /\ reply[Shipper].decodes /\ reply[Shipper].n > 0
    /\ \A id \in Ids : spawned[Shipper][id] = 0
    /\ \E id \in Ids : spawned[Uploader][id] > 0

(***************************************************************************)
(* Properties of PrepSync's completion signal (under SpecReportFair).      *)
(***************************************************************************)
\* the caller went through PrepSync
ThroughPrepSync == rEntry \in {"PrepSync", "PersistRepanic"} /\ shipPc # "none"

\* the send attempt of the started goroutine is over: ShipTrace saw NoPost,
\* or Postit is past HttpClient.Do, at its NoPost return or in a panic
SendTerminated ==
    \/ shipPc = "shipped"
    \/ shipPc = "postit" /\ pc[Shipper] \in {"deferred", "returned"}

\* C20: PrepSync does not hang on `done`: once the send attempt of its
\* goroutine is over (sent, network failure, NoPost, or a panic in Postit
\* that Postit stops), PrepSync returns in the end, and when it has, exactly
\* one value was sent on `done`.
C20_PrepSyncReturns ==
    /\ (ThroughPrepSync /\ SendTerminated) ~> (rpc = "returned")
    /\ [](doneSent <= 1)
    /\ [](ThroughPrepSync /\ rpc \in {"afterprep", "returned"} => doneSent = 1)

\* a PrepSync has returned after Postit stopped a panic of its own
C20_Witness ==
    /\ rEntry = "PrepSync"
    /\ rpc = "returned"
    /\ result[Shipper] = "recovered"
    /\ doneSent = 1

====
